---- MODULE Spec2Model ----
(***************************************************************************)
(* Pipeline orchestration and resilience layer of DeepResearchAI:          *)
(*   src/src/orchestrator.py   ResearchOrchestrator, ResearchProgress      *)
(*   src/src/llm_client.py     LLMClient (primary/fallback LLM backend)    *)
(*   src/src/modules/web_search.py  WebSearch._execute_search              *)
(*                                                                         *)
(* Calls that leave the modelled classes (the module collaborators, the    *)
(* backends, the stage callable handed to _run_stage) are modelled at      *)
(* their interface: they return a value of a small set or raise.  Every    *)
(* await on such a call is a point where another task may run.             *)
(* _calculate_confidence is also modelled as called directly on a session. *)
(* Numbers that are floats in the source are kept as exact scaled          *)
(* integers; the unit is stated at each definition.                        *)
(***************************************************************************)
EXTENDS Integers, Sequences, FiniteSets, TLC

(***************************************************************************)
(* Bounds of the model                                                     *)
(***************************************************************************)
\* number of research() calls made on the one orchestrator
MaxSessions == 2
\* number of logical calls made through the LLM client and the search client
MaxCalls == 3
\* the max_sources argument of research()
MaxSources == 2

\* number of tasks that call retry_with_backoff
MaxRetryTasks == 2
\* largest max_attempts argument of retry_with_backoff
MaxAttempts == 3
\* number of record_error calls made on one ErrorHandler
MaxRecords == 105

Sessions == 1..MaxSessions
Calls == 1..MaxCalls
RetryTasks == 1..MaxRetryTasks
Queries == {"q1", "q2"}

(***************************************************************************)
(* ResearchStage (orchestrator.py 45-53)                                   *)
(***************************************************************************)
QUERY_ANALYSIS == "query_analysis"
WEB_SEARCH == "web_search"
REASONING == "reasoning"
VERIFICATION == "verification"
CITATION == "citation"
OUTPUT_GENERATION == "output_generation"
COMPLETE == "complete"

\* the members of the enum, in definition order
ResearchStage ==
  <<QUERY_ANALYSIS, WEB_SEARCH, REASONING, VERIFICATION, CITATION,
    OUTPUT_GENERATION, COMPLETE>>

StageIndex(stage) == CHOOSE i \in 1..Len(ResearchStage) : ResearchStage[i] = stage

(***************************************************************************)
(* Values                                                                  *)
(***************************************************************************)
\* Optional values: <<>> is None, <<v>> is the value v.
None == <<>>
Some(v) == <<v>>
IsNone(o) == o = <<>>
\* dict-shaped collaborator results: "empty" is {} (falsy), "full" is a
\* non-empty dict (truthy); payload fields the orchestrator reads are kept.
EmptyDict == [kind |-> "empty", overall_confidence |-> -1]
FullDict(conf) == [kind |-> "full", overall_confidence |-> conf]
\* Python truthiness of an Optional[dict]
Truthy(o) == ~IsNone(o) /\ o[1].kind = "full"

\* exception messages
MsgCollaborator == "collaborator failed"
MsgNoAnalysis == "Query analysis not available"
MsgNoSourcesReason == "No sources available for reasoning"
MsgNoSynthesis == "Synthesis not available for verification"
MsgNoSourcesCite == "No sources available for citation"
MsgNoSession == "No session found for query"
MsgAttributeError == "object has no attribute 'get'"
MsgCallback == "progress callback failed"

VARIABLES
  session_counter,   \* ResearchOrchestrator._session_counter
  active_sessions,   \* keys of ResearchOrchestrator.active_sessions, in insertion order
  sessions,          \* the ResearchSession objects, by session id
  pc,                \* position of each research() call
  frame,             \* local variables of each research() call
  result,            \* what each research() call gave its caller
  callbacks,         \* the invocations of each call's progress_callback, in order
  llm_use_fallback,    \* LLMClient._use_fallback
  search_use_fallback, \* WebSearch._use_fallback
  calls,             \* the logical calls made through the two clients
  conf_session,      \* the session handed to a direct _calculate_confidence call
  conf_result,       \* what that call returned, None before it
  error_history,     \* ErrorHandler.error_history
  records_made,      \* number of record_error calls made on the handler
  retry,             \* the retry_with_backoff calls, one per task
  dedup_input,       \* all_results and max_sources of a search stage
  dedup_output,      \* search_results and sources that stage stored, None before
  ws_input,          \* provider results, evaluation and max_results of a WebSearch.search call
  ws_output          \* the list that call returned, None before

orchVars == <<session_counter, active_sessions, sessions, pc, frame, result, callbacks>>
clientVars == <<llm_use_fallback, search_use_fallback, calls>>
confVars == <<conf_session, conf_result>>
historyVars == <<error_history, records_made>>
retryVars == <<retry>>
dedupVars == <<dedup_input, dedup_output>>
wsVars == <<ws_input, ws_output>>
unitVars == <<confVars, historyVars, retryVars, dedupVars, wsVars>>
vars == <<orchVars, clientVars, unitVars>>

(***************************************************************************)
(* ResearchProgress (orchestrator.py 56-74)                                *)
(***************************************************************************)
NewProgress ==
  [current_stage |-> QUERY_ANALYSIS,
   stages_completed |-> <<>>,
   stage_times |-> {},
   errors |-> <<>>]

\* complete_stage putting the stage at the front of the list
complete_stage_front(p, stage) ==
  [p EXCEPT !.stages_completed = <<stage>> \o @,
            !.stage_times = @ \cup {stage}]

\* ResearchProgress.complete_stage; the duration itself is not modelled,
\* stage_times is the set of keys of the dict
complete_stage(p, stage) ==
  [p EXCEPT !.stages_completed = Append(@, stage),
            !.stage_times = @ \cup {stage}]

\* progress_percentage that leaves one stage too many out of the total
progress_percentage_short(p) ==
  (Len(p.stages_completed) * 10000) \div (Len(ResearchStage) - 2)

\* ResearchProgress.progress_percentage, in hundredths of a percent
\* (10000 is 100.0); len/total_stages*100 is rounded down to that unit
total_stages == Len(ResearchStage) - 1
progress_percentage(p) == (Len(p.stages_completed) * 10000) \div total_stages

(***************************************************************************)
(* ResearchSession (orchestrator.py 77-91)                                 *)
(***************************************************************************)
NewSession(query) ==
  [query |-> query,
   progress |-> NewProgress,
   query_analysis |-> None,
   search_results |-> <<>>,
   sources |-> <<>>,
   reasoning_steps |-> <<>>,
   synthesis |-> None,
   verification |-> None,
   citations |-> None,
   final_result |-> None]

\* a slot of `sessions` whose object has not been constructed yet
NoSession == NewSession("")

NewFrame ==
  [verify_claims |-> TRUE,
   progress_callback |-> FALSE, \* whether the caller gave a progress_callback
   stage |-> QUERY_ANALYSIS,  \* the stage argument of the current _run_stage
   sub |-> 0,                 \* which await of the stage callable is pending
   target |-> 0,              \* session found by _get_current_session
   held |-> None,             \* verification_result, held in a local of _verify
   confidence |-> 0,          \* confidence, a local of _generate_output
   error |-> "",              \* str(e) of the exception caught in research()
   pending |-> None,          \* value research() is about to return
   raising |-> FALSE]         \* research() is unwinding with an exception

\* outcome of a research() call as its caller sees it
NoResult == [kind |-> "none", value |-> None, error |-> ""]
Returned(value) == [kind |-> "returned", value |-> value, error |-> ""]
Raised(msg) == [kind |-> "raised", value |-> None, error |-> msg]

\* a logical call through LLMClient or WebSearch
NewCall ==
  [method |-> "none",       \* "generate", "generate_json" or "search"
   at |-> "idle",           \* the backend call it is awaiting, or "done"
   flag_at_start |-> FALSE, \* _use_fallback when the call started
   primary_calls |-> 0,     \* invocations of the primary backend
   fallback_calls |-> 0,    \* invocations of the secondary backend
   primary_event |-> "none",   \* what the primary did: "returned", "empty", "raised"
   fallback_event |-> "none",  \* what the secondary did
   outcome |-> "none"]      \* "primary"/"fallback": result returned from that
                            \* backend, "empty": [] returned, "raised"

\* a retry_with_backoff call (error_handling.py 492-536)
NewRetry ==
  [at |-> "idle",          \* "func": awaiting func, "sleep": awaiting asyncio.sleep
   max_attempts |-> 0,     \* the max_attempts argument
   attempt |-> 0,          \* the loop variable
   invocations |-> 0,      \* number of times func was invoked
   last_exception |-> 0,   \* 0 is None, k is the exception of invocation k
   delay |-> 1,            \* the delay local, in units of initial_delay
   sleeps |-> <<>>,        \* the arguments of the asyncio.sleep calls made, in order
   outcome |-> [kind |-> "none", invocation |-> 0]]

\* the input of a WebSearch.search call not made yet
NoWebSearchInput == [all_results |-> <<>>, evaluated |-> <<>>, max_results |-> 0]

\* the input of a de-duplication not made yet
NoDedupInput == [all_results |-> <<>>, max_sources |-> 0]

\* the orchestrator with its clients after construction
InitPipeline ==
  /\ llm_use_fallback = FALSE
  /\ search_use_fallback = FALSE
  /\ calls = [c \in Calls |-> NewCall]
  /\ session_counter = 0
  /\ active_sessions = <<>>
  /\ sessions = [s \in Sessions |-> NoSession]
  /\ pc = [s \in Sessions |-> "idle"]
  /\ frame = [s \in Sessions |-> NewFrame]
  /\ result = [s \in Sessions |-> NoResult]
  /\ callbacks = [s \in Sessions |-> <<>>]

\* no direct _calculate_confidence call
IdleConfidence == conf_session = NoSession /\ conf_result = None
\* ErrorHandler.__init__ (error_handling.py 154) and no retry call yet
InitErrorHandler ==
  /\ error_history = <<>>
  /\ records_made = 0
  /\ retry = [t \in RetryTasks |-> NewRetry]
\* no de-duplication under observation
IdleDedup == dedup_input = NoDedupInput /\ dedup_output = None
\* no WebSearch.search call under observation
IdleWebSearch == ws_input = NoWebSearchInput /\ ws_output = None

Init == InitPipeline /\ IdleConfidence /\ InitErrorHandler /\ IdleDedup /\ IdleWebSearch

(***************************************************************************)
(* Pure helpers of the orchestrator                                        *)
(***************************************************************************)
Take(seq, n) == SubSeq(seq, 1, IF Len(seq) < n THEN Len(seq) ELSE n)

\* a search result: the fields of SearchResult the orchestrator reads
Hit(title, url) == [title |-> title, url |-> url]

\* a loop in which a result with a URL seen before takes the place of the
\* result kept for that URL
DedupState_last(all_results) ==
  LET F[i \in 0..Len(all_results)] ==
        IF i = 0 THEN [seen_urls |-> {}, unique_results |-> <<>>]
        ELSE IF all_results[i].url \in F[i-1].seen_urls
             THEN [F[i-1] EXCEPT !.unique_results =
                     [k \in DOMAIN @ |-> IF @[k].url = all_results[i].url
                                         THEN all_results[i] ELSE @[k]]]
             ELSE [seen_urls |-> F[i-1].seen_urls \cup {all_results[i].url},
                   unique_results |-> Append(F[i-1].unique_results, all_results[i])]
  IN F[Len(all_results)]

\* _search_web, "Deduplicate by URL" loop (orchestrator.py 300-306): the
\* state after the first i results is the pair (seen_urls, unique_results)
DedupState(all_results) ==
  LET F[i \in 0..Len(all_results)] ==
        IF i = 0 THEN [seen_urls |-> {}, unique_results |-> <<>>]
        ELSE IF all_results[i].url \in F[i-1].seen_urls
             THEN F[i-1]
             ELSE [seen_urls |-> F[i-1].seen_urls \cup {all_results[i].url},
                   unique_results |-> Append(F[i-1].unique_results, all_results[i])]
  IN F[Len(all_results)]

unique_results(all_results) == DedupState(all_results).unique_results

\* Source(...) as constructed in _search_web (orchestrator.py 314-321):
\* credibility_score=0.7, credibility_level left at the dataclass default.
\* Scores are in percent.
DefaultCredibility == 70
NewSource(url) ==
  [url |-> url, credibility_score |-> DefaultCredibility, credibility_level |-> "medium"]

SumScores(srcs) ==
  LET F[i \in 0..Len(srcs)] ==
        IF i = 0 THEN 0 ELSE F[i-1] + srcs[i].credibility_score
  IN F[Len(srcs)]

SumSeq(seq) ==
  LET F[i \in 0..Len(seq)] == IF i = 0 THEN 0 ELSE F[i-1] + seq[i]
  IN F[Len(seq)]

Min(a, b) == IF a < b THEN a ELSE b

\* a max that always gives its second argument
Max_second(a, b) == b

Max(a, b) == IF a > b THEN a ELSE b

\* Confidence values are exact, in units of 1/ConfUnit (ConfUnit is 1.0).
ConfUnit == 36000
Percent(p) == p * (ConfUnit \div 100)
DefaultVerificationScore == 50
SourceTarget == 10
ErrorPenaltyPercent == 10
NeutralConfidence == ConfUnit \div 2

\* the neutral default of the aggregator taken as the confidence of the
\* degraded result
DegradedConfidence_neutral == ConfUnit \div 2

DegradedConfidence == ConfUnit \div 5

\* _calculate_confidence appending a verification score of 0 when the
\* session has no verification result
_calculate_confidence_zero_verification(sess) ==
  LET n == Len(sess.sources)
      quality == IF n > 0
                 THEN << (SumScores(sess.sources) * (ConfUnit \div 100)) \div n >>
                 ELSE <<>>
      verif == IF Truthy(sess.verification)
               THEN << Percent(IF sess.verification[1].overall_confidence < 0
                               THEN DefaultVerificationScore
                               ELSE sess.verification[1].overall_confidence) >>
               ELSE <<0>>
      source_score == Min((n * ConfUnit) \div SourceTarget, ConfUnit)
      factors == quality \o verif \o <<source_score>>
      error_penalty == Len(sess.progress.errors) * Percent(ErrorPenaltyPercent)
  IN Max(0, Min(ConfUnit, (SumSeq(factors) \div Len(factors)) - error_penalty))

\* ResearchOrchestrator._calculate_confidence (orchestrator.py 455-480).
\* The key "overall_confidence" missing from the dict is the figure -1.
_calculate_confidence(sess) ==
  LET n == Len(sess.sources)
      quality == IF n > 0
                 THEN << (SumScores(sess.sources) * (ConfUnit \div 100)) \div n >>
                 ELSE <<>>
      verif == IF Truthy(sess.verification)
               THEN << Percent(IF sess.verification[1].overall_confidence < 0
                               THEN DefaultVerificationScore
                               ELSE sess.verification[1].overall_confidence) >>
               ELSE <<>>
      source_score == Min((n * ConfUnit) \div SourceTarget, ConfUnit)
      factors == quality \o verif \o <<source_score>>
      error_penalty == Len(sess.progress.errors) * Percent(ErrorPenaltyPercent)
  IN IF Len(factors) > 0
     THEN Max(0, Min(ConfUnit, (SumSeq(factors) \div Len(factors)) - error_penalty))
     ELSE NeutralConfidence

\* a lookup that returns the first active session whatever its query
_get_current_session_first(query) ==
  IF active_sessions = <<>> THEN 0 ELSE active_sessions[1]

\* ResearchOrchestrator._get_current_session (orchestrator.py 527-532):
\* the first active session, in dict order, with that query; 0 stands for
\* the ResearchError raised when there is none
_get_current_session(query) ==
  LET hits == {i \in 1..Len(active_sessions) : sessions[active_sessions[i]].query = query}
  IN IF hits = {} THEN 0
     ELSE active_sessions[CHOOSE i \in hits : \A j \in hits : i <= j]

\* research() with the verify_claims test dropped: verification never runs
NextStage_unverified(stage, verify_claims) ==
  CASE stage = QUERY_ANALYSIS -> WEB_SEARCH
    [] stage = WEB_SEARCH -> REASONING
    [] stage = REASONING -> CITATION
    [] stage = VERIFICATION -> CITATION
    [] stage = CITATION -> OUTPUT_GENERATION
    [] OTHER -> COMPLETE

\* the order of the _run_stage calls in research() (orchestrator.py 157-217)
NextStage(stage, verify_claims) ==
  CASE stage = QUERY_ANALYSIS -> WEB_SEARCH
    [] stage = WEB_SEARCH -> REASONING
    [] stage = REASONING -> IF verify_claims THEN VERIFICATION ELSE CITATION
    [] stage = VERIFICATION -> CITATION
    [] stage = CITATION -> OUTPUT_GENERATION
    [] OTHER -> COMPLETE

\* the check a stage callable makes before its first await; "" when it passes
Precheck_lenient(sess, stage) ==
  CASE stage = WEB_SEARCH /\ IsNone(sess.query_analysis) -> MsgNoAnalysis
    [] stage = VERIFICATION /\ ~Truthy(sess.synthesis) -> MsgNoSynthesis
    [] OTHER -> ""

Precheck(sess, stage) ==
  CASE stage = WEB_SEARCH /\ IsNone(sess.query_analysis) -> MsgNoAnalysis
    [] stage = REASONING /\ sess.sources = <<>> -> MsgNoSourcesReason
    [] stage = VERIFICATION /\ ~Truthy(sess.synthesis) -> MsgNoSynthesis
    [] stage = CITATION /\ sess.sources = <<>> -> MsgNoSourcesCite
    [] OTHER -> ""

(***************************************************************************)
(* research() (orchestrator.py 129-232), one action per span of code       *)
(* between two awaits or two _run_stage bookkeeping steps                  *)
(***************************************************************************)
\* research() is called: _create_session (orchestrator.py 513-525)
Research(query, verify_claims, progress_callback) ==
  /\ session_counter < MaxSessions
  /\ LET s == session_counter + 1 IN
       /\ session_counter' = s
       /\ sessions' = [sessions EXCEPT ![s] = NewSession(query)]
       /\ active_sessions' = Append(active_sessions, s)
       /\ frame' = [frame EXCEPT ![s] = [NewFrame EXCEPT !.verify_claims = verify_claims,
                                                         !.progress_callback = progress_callback]]
       /\ pc' = [pc EXCEPT ![s] = "ready"]
  /\ UNCHANGED <<result, callbacks, clientVars, unitVars>>

\* a failure branch that also starts the progress list afresh
StageFailed_reset(ss, s, msg) ==
  /\ sessions' = [ss EXCEPT ![s].progress.errors = Append(@, <<frame[s].stage, msg>>),
                            ![s].progress.stages_completed = <<>>]
  /\ frame' = [frame EXCEPT ![s].error = msg, ![s].held = None]
  /\ pc' = [pc EXCEPT ![s] = "failed"]

\* the except branch of _run_stage (orchestrator.py 259-263) followed by the
\* except branch of research() up to the call of _handle_research_failure
\* (orchestrator.py 223-227), applied to the session table ss
StageFailed(ss, s, msg) ==
  /\ sessions' = [ss EXCEPT ![s].progress.errors = Append(@, <<frame[s].stage, msg>>)]
  /\ frame' = [frame EXCEPT ![s].error = msg, ![s].held = None]
  /\ pc' = [pc EXCEPT ![s] = "failed"]

\* a success branch that starts stage_times afresh
StageCompleted_restart(ss, s) ==
  /\ sessions' = [ss EXCEPT ![s].progress =
                    [complete_stage(@, frame[s].stage) EXCEPT !.stage_times = {frame[s].stage}]]
  /\ frame' = [frame EXCEPT ![s].stage = NextStage(@, frame[s].verify_claims),
                            ![s].sub = 0, ![s].held = None]
  /\ pc' = [pc EXCEPT ![s] = "ready"]

\* the success branch of _run_stage (orchestrator.py 255-257) and the return
\* to research(), which goes on to its next _run_stage call
StageCompleted(ss, s) ==
  /\ sessions' = [ss EXCEPT ![s].progress = complete_stage(@, frame[s].stage)]
  /\ frame' = [frame EXCEPT ![s].stage = NextStage(@, frame[s].verify_claims),
                            ![s].sub = 0, ![s].held = None]
  /\ pc' = [pc EXCEPT ![s] = "ready"]

\* the keyword arguments research() gives _run_stage: none, every argument
\* is positional (orchestrator.py 159-214)
StageKwargs == {}

\* "progress_callback = kwargs.pop('progress_callback', None)" and the test
\* "if progress_callback:" of _run_stage (orchestrator.py 243, 248)
run_stage_progress_callback(s) ==
  "progress_callback" \in StageKwargs /\ frame[s].progress_callback

\* a _run_stage that leaves current_stage as it was
RunStage_late(s) ==
  /\ pc[s] = "ready"
  /\ frame[s].stage # COMPLETE
  /\ callbacks' = callbacks
  /\ LET stage == frame[s].stage
         ss == sessions
         target == IF stage = QUERY_ANALYSIS THEN _get_current_session(ss[s].query) ELSE 0
     IN
       IF stage = QUERY_ANALYSIS /\ target = 0
       THEN StageFailed(ss, s, MsgNoSession)
       ELSE IF Precheck(ss[s], stage) # ""
       THEN StageFailed(ss, s, Precheck(ss[s], stage))
       ELSE /\ sessions' = ss
            /\ frame' = [frame EXCEPT ![s].target = target, ![s].sub = 0,
                           ![s].confidence = IF stage = OUTPUT_GENERATION
                                             THEN _calculate_confidence(ss[s]) ELSE @]
            /\ pc' = [pc EXCEPT ![s] = "in_stage"]
  /\ UNCHANGED <<session_counter, active_sessions, result, clientVars, unitVars>>

\* _run_stage up to the first await of the stage callable
\* (orchestrator.py 243-254 and the head of the callable).
\* research() hands progress_callback over positionally, so _run_stage
\* receives it inside *args and passes it on in stage_func(*args); the stage
\* methods of this class do not take that argument, which makes the call
\* raise TypeError (one of the failures StageRaises covers).  stage_func is a
\* parameter of _run_stage: its call is modelled with both outcomes, the
\* return being that of a callable which accepts the arguments it is given.
RunStage(s) ==
  /\ pc[s] = "ready"
  /\ frame[s].stage # COMPLETE
  /\ callbacks' = [callbacks EXCEPT ![s] =
        IF run_stage_progress_callback(s)
        THEN Append(@, <<frame[s].stage, progress_percentage(sessions[s].progress)>>)
        ELSE @]
  /\ LET stage == frame[s].stage
         ss == [sessions EXCEPT ![s].progress.current_stage = stage]
         target == IF stage = QUERY_ANALYSIS THEN _get_current_session(ss[s].query) ELSE 0
     IN
       IF stage = QUERY_ANALYSIS /\ target = 0
       THEN StageFailed(ss, s, MsgNoSession)
       ELSE IF Precheck(ss[s], stage) # ""
       THEN StageFailed(ss, s, Precheck(ss[s], stage))
       ELSE /\ sessions' = ss
            /\ frame' = [frame EXCEPT ![s].target = target, ![s].sub = 0,
                           ![s].confidence = IF stage = OUTPUT_GENERATION
                                             THEN _calculate_confidence(ss[s]) ELSE @]
            /\ pc' = [pc EXCEPT ![s] = "in_stage"]
  /\ UNCHANGED <<session_counter, active_sessions, result, clientVars, unitVars>>

InStage(s, stage, sub) ==
  pc[s] = "in_stage" /\ frame[s].stage = stage /\ frame[s].sub = sub

\* a failure recorded twice in progress.errors
StageRaises_twice(s) ==
  /\ pc[s] = "in_stage"
  /\ StageFailed([sessions EXCEPT ![s].progress.errors =
                    Append(@, <<frame[s].stage, MsgCollaborator>>)], s, MsgCollaborator)
  /\ UNCHANGED <<session_counter, active_sessions, result, callbacks, clientVars, unitVars>>

\* a collaborator call of the stage callable raises
StageRaises(s) ==
  /\ pc[s] = "in_stage"
  /\ StageFailed(sessions, s, MsgCollaborator)
  /\ UNCHANGED <<session_counter, active_sessions, result, callbacks, clientVars, unitVars>>

\* _analyze_query after query_understanding.analyze returned
\* (orchestrator.py 269-272)
AnalyzeReturns(s) ==
  /\ InStage(s, QUERY_ANALYSIS, 0)
  /\ StageCompleted([sessions EXCEPT ![frame[s].target].query_analysis = Some("analysis")], s)
  /\ UNCHANGED <<session_counter, active_sessions, result, callbacks, clientVars, unitVars>>

\* _search_web after the web_search.search calls returned all_results
\* (orchestrator.py 286-308); with no result there is no further await
SearchReturns(s, all_results) ==
  /\ InStage(s, WEB_SEARCH, 0)
  /\ LET found == Take(unique_results(all_results), MaxSources)
         ss == [sessions EXCEPT ![s].search_results = found]
     IN IF found = <<>>
        THEN StageCompleted([ss EXCEPT ![s].sources = <<>>], s)
        ELSE /\ sessions' = ss
             /\ frame' = [frame EXCEPT ![s].sub = 1]
             /\ pc' = pc
  /\ UNCHANGED <<session_counter, active_sessions, result, callbacks, clientVars, unitVars>>

\* _search_web after the extract_content calls returned (orchestrator.py 311-325)
ExtractReturns(s) ==
  /\ InStage(s, WEB_SEARCH, 1)
  /\ StageCompleted(
       [sessions EXCEPT ![s].sources =
          [i \in 1..Len(sessions[s].search_results) |-> NewSource(sessions[s].search_results[i].url)]],
       s)
  /\ UNCHANGED <<session_counter, active_sessions, result, callbacks, clientVars, unitVars>>

\* _reason after chain_of_thought returned (orchestrator.py 343-348)
ChainOfThoughtReturns(s, reasoning_chain) ==
  /\ InStage(s, REASONING, 0)
  /\ sessions' = [sessions EXCEPT ![s].reasoning_steps = reasoning_chain]
  /\ frame' = [frame EXCEPT ![s].sub = 1]
  /\ UNCHANGED <<session_counter, active_sessions, result, pc, callbacks, clientVars, unitVars>>

\* _reason after synthesize_information returned (orchestrator.py 351-358)
SynthesizeReturns(s, synthesis_result) ==
  /\ InStage(s, REASONING, 1)
  /\ StageCompleted([sessions EXCEPT ![s].synthesis = Some(synthesis_result)], s)
  /\ UNCHANGED <<session_counter, active_sessions, result, callbacks, clientVars, unitVars>>

\* _verify after verification.verify returned (orchestrator.py 369-375)
VerifyReturns(s, verification_result) ==
  /\ InStage(s, VERIFICATION, 0)
  /\ IF sessions[s].sources = <<>>
     THEN StageCompleted([sessions EXCEPT ![s].verification = Some(verification_result)], s)
     ELSE /\ frame' = [frame EXCEPT ![s].held = Some(verification_result), ![s].sub = 1]
          /\ UNCHANGED <<sessions, pc>>
  /\ UNCHANGED <<session_counter, active_sessions, result, callbacks, clientVars, unitVars>>

\* _verify after assess_credibility returned for source number sub
\* (orchestrator.py 375-381)
AssessReturns(s, overall_score) ==
  /\ pc[s] = "in_stage" /\ frame[s].stage = VERIFICATION /\ frame[s].sub >= 1
  /\ LET k == frame[s].sub
         ss == [sessions EXCEPT ![s].sources[k].credibility_score = overall_score]
     IN IF k = Len(sessions[s].sources)
        THEN StageCompleted([ss EXCEPT ![s].verification = frame[s].held], s)
        ELSE /\ sessions' = ss
             /\ frame' = [frame EXCEPT ![s].sub = k + 1]
             /\ pc' = pc
  /\ UNCHANGED <<session_counter, active_sessions, result, callbacks, clientVars, unitVars>>

\* a citation stage that notes a warning in progress.errors though it succeeds
CitationsReturn_warns(s, citations) ==
  /\ InStage(s, CITATION, 0)
  /\ StageCompleted([sessions EXCEPT ![s].citations = Some(citations),
                                     ![s].progress.errors = Append(@, <<CITATION, "warning">>)], s)
  /\ UNCHANGED <<session_counter, active_sessions, result, callbacks, clientVars, unitVars>>

\* _generate_citations after generate_citations returned (orchestrator.py 394-401)
CitationsReturn(s, citations) ==
  /\ InStage(s, CITATION, 0)
  /\ StageCompleted([sessions EXCEPT ![s].citations = Some(citations)], s)
  /\ UNCHANGED <<session_counter, active_sessions, result, callbacks, clientVars, unitVars>>

\* a ResearchResult whose sources are built from session.search_results
ResearchResult_from_search_results(sess, answer, confidence, status, partial, error) ==
  [query |-> sess.query,
   answer |-> answer,
   confidence |-> confidence,
   sources |-> [i \in 1..Len(sess.search_results) |-> NewSource(sess.search_results[i].url)],
   reasoning_steps |-> sess.reasoning_steps,
   verification_status |-> status,
   partial |-> partial,
   error |-> error]

\* a ResearchResult; partial and error are metadata["partial"] (absent is
\* FALSE) and metadata["error"] (absent is "")
ResearchResult(sess, answer, confidence, status, partial, error) ==
  [query |-> sess.query,
   answer |-> answer,
   confidence |-> confidence,
   sources |-> sess.sources,
   reasoning_steps |-> sess.reasoning_steps,
   verification_status |-> status,
   partial |-> partial,
   error |-> error]

\* _generate_output after generate_report and generate_summary returned
\* (orchestrator.py 421-453); text is summary["summary"]["text"] or its default ""
OutputReturns(s, text) ==
  /\ InStage(s, OUTPUT_GENERATION, 0)
  /\ StageCompleted(
       [sessions EXCEPT ![s].final_result =
          Some(ResearchResult(sessions[s], text, frame[s].confidence,
                              IF Truthy(sessions[s].verification) THEN "verified" ELSE "unverified",
                              FALSE, ""))],
       s)
  /\ UNCHANGED <<session_counter, active_sessions, result, callbacks, clientVars, unitVars>>

\* "Mark complete", the callback invocation when there is a callback and
\* it returns, and the return statement (orchestrator.py 216-221);
\* percentages are in hundredths of a percent
MarkComplete(s) ==
  /\ pc[s] = "ready"
  /\ frame[s].stage = COMPLETE
  /\ sessions' = [sessions EXCEPT ![s].progress.current_stage = COMPLETE]
  /\ callbacks' = [callbacks EXCEPT ![s] =
        IF frame[s].progress_callback THEN Append(@, <<COMPLETE, 10000>>) ELSE @]
  /\ frame' = [frame EXCEPT ![s].pending = sessions[s].final_result]
  /\ pc' = [pc EXCEPT ![s] = "finally"]
  /\ UNCHANGED <<session_counter, active_sessions, result, clientVars, unitVars>>

\* "Mark complete" when the callback raises: the exception is caught by the
\* except branch of research() (orchestrator.py 216-219, 223-227)
CompleteCallbackRaises(s) ==
  /\ pc[s] = "ready"
  /\ frame[s].stage = COMPLETE
  /\ frame[s].progress_callback
  /\ sessions' = [sessions EXCEPT ![s].progress.current_stage = COMPLETE]
  /\ callbacks' = [callbacks EXCEPT ![s] = Append(@, <<COMPLETE, 10000>>)]
  /\ frame' = [frame EXCEPT ![s].error = MsgCallback]
  /\ pc' = [pc EXCEPT ![s] = "failed"]
  /\ UNCHANGED <<session_counter, active_sessions, result, clientVars, unitVars>>

(***************************************************************************)
(* The degraded-output path                                                *)
(***************************************************************************)
\* The dict generate_fallback_content returns: `shape` says what is stored
\* under "fallback_content" ("absent": no such key, "mapping": a dict,
\* "not_mapping": a JSON value that is not a dict), `response` is the
\* "response" entry of that dict, None when it has none.
FallbackDict(shape, response) == [shape |-> shape, response |-> response]
HardcodedApology == "Unable to complete the research at this time."
DefaultAnswer == "Research could not be completed."
HardcodedFallback == FallbackDict("mapping", Some(HardcodedApology))

\* ErrorHandler.generate_fallback_content (error_handling.py 407-447);
\* llm is the outcome of its LLM call: it raised, or it gave the dict llm.value
generate_fallback_content(llm) ==
  IF llm.raises THEN HardcodedFallback ELSE llm.value

\* a handler that goes on with the stage after the one that failed
HandleFailure_resume(s) ==
  /\ pc[s] = "failed"
  /\ IF frame[s].stage \in {COMPLETE, OUTPUT_GENERATION}
     THEN pc' = [pc EXCEPT ![s] = "fallback"] /\ frame' = frame
     ELSE /\ pc' = [pc EXCEPT ![s] = "ready"]
          /\ frame' = [frame EXCEPT ![s].stage = NextStage(@, frame[s].verify_claims),
                                    ![s].sub = 0, ![s].error = ""]
  /\ UNCHANGED <<session_counter, active_sessions, sessions, result, callbacks, clientVars, unitVars>>

\* research() caught an exception and calls _handle_research_failure, which
\* awaits generate_fallback_content (orchestrator.py 223-227, 488-496)
HandleFailure(s) ==
  /\ pc[s] = "failed"
  /\ pc' = [pc EXCEPT ![s] = "fallback"]
  /\ UNCHANGED <<session_counter, active_sessions, sessions, frame, result, callbacks, clientVars, unitVars>>

\* _handle_research_failure after generate_fallback_content returned
\* (orchestrator.py 498-511, 228): fallback.get("fallback_content", {})
\* .get("response", default) raises AttributeError on a non-dict
FallbackReturns(s, llm) ==
  /\ pc[s] = "fallback"
  /\ LET fallback == generate_fallback_content(llm) IN
       IF fallback.shape = "not_mapping"
       THEN frame' = [frame EXCEPT ![s].raising = TRUE, ![s].error = MsgAttributeError]
       ELSE frame' = [frame EXCEPT ![s].pending =
              Some(ResearchResult(sessions[s],
                     IF fallback.shape = "mapping" /\ ~IsNone(fallback.response)
                     THEN fallback.response[1] ELSE DefaultAnswer,
                     DegradedConfidence, "failed", TRUE, frame[s].error))]
  /\ pc' = [pc EXCEPT ![s] = "finally"]
  /\ UNCHANGED <<session_counter, active_sessions, sessions, result, callbacks, clientVars, unitVars>>

\* a cleanup that drops the oldest registry entry instead of the given one
_cleanup_session_oldest(registry, session_id) ==
  IF registry = <<>> THEN registry ELSE Tail(registry)

\* ResearchOrchestrator._cleanup_session (orchestrator.py 534-537)
_cleanup_session(registry, session_id) ==
  SelectSeq(registry, LAMBDA k : k # session_id)

\* the finally block of research() and the end of the call
\* (orchestrator.py 230-232)
Finally(s) ==
  /\ pc[s] = "finally"
  /\ active_sessions' = _cleanup_session(active_sessions, s)
  /\ result' = [result EXCEPT ![s] = IF frame[s].raising THEN Raised(frame[s].error)
                                      ELSE Returned(frame[s].pending)]
  /\ pc' = [pc EXCEPT ![s] = "done"]
  /\ UNCHANGED <<session_counter, sessions, frame, callbacks, clientVars, unitVars>>

(***************************************************************************)
(* What the collaborators may return                                       *)
(***************************************************************************)
SeqsUpTo(S, n) == UNION {[1..k -> S] : k \in 0..n}
MaxResults == 3
\* results the providers may give: A and C have the same URL
SearchHits == {Hit("A", "u1"), Hit("B", "u2"), Hit("C", "u1"), Hit("D", "u3")}
AllSearchOutcomes == SeqsUpTo(SearchHits, MaxResults)
SomeSearchOutcomes == {<<>>, <<Hit("A", "u1"), Hit("C", "u1")>>}
ReasoningChains == {<<>>, <<"step">>}
SynthesisResults == {EmptyDict, FullDict(-1)}
VerificationResults == {EmptyDict, FullDict(-1), FullDict(90)}
CredibilityScores == {DefaultCredibility, 90}
CitationResults == {EmptyDict, FullDict(-1)}
SummaryTexts == {"", "summary"}
LLMRaises == [raises |-> TRUE, value |-> FallbackDict("absent", None)]
LLMGives(shape, response) == [raises |-> FALSE, value |-> FallbackDict(shape, response)]
AllFallbackOutcomes ==
  {LLMRaises,
   LLMGives("mapping", Some("best possible response")),
   LLMGives("mapping", Some("")),
   LLMGives("mapping", None),
   LLMGives("absent", None),
   LLMGives("not_mapping", None)}
SomeFallbackOutcomes == {LLMRaises, LLMGives("not_mapping", None)}

(***************************************************************************)
(* LLMClient (llm_client.py 189-253)                                       *)
(***************************************************************************)
\* a client choice that ignores the flag
ChooseClient_primary(use_fallback) == "primary"

\* "client = self.fallback if self._use_fallback else self.primary"
\* (llm_client.py 206, 236; web_search.py 241)
ChooseClient(use_fallback) == IF use_fallback THEN "fallback" ELSE "primary"

\* the call c goes out to the backend `client`
Invoke(call, client) ==
  [call EXCEPT !.at = client,
               !.primary_calls = IF client = "primary" THEN @ + 1 ELSE @,
               !.fallback_calls = IF client = "fallback" THEN @ + 1 ELSE @]

LLMMethods == {"generate", "generate_json"}

\* LLMClient.generate / generate_json is called: the client is chosen and
\* its method awaited (llm_client.py 206-215, 236-243)
Generate(c, method) ==
  /\ calls[c].at = "idle"
  /\ calls' = [calls EXCEPT ![c] =
        Invoke([@ EXCEPT !.method = method, !.flag_at_start = llm_use_fallback],
               ChooseClient(llm_use_fallback))]
  /\ UNCHANGED <<llm_use_fallback, search_use_fallback, orchVars, unitVars>>

\* a return path that switches back to the primary after a success
LLMBackendReturns_reset(c) ==
  /\ calls[c].method \in LLMMethods
  /\ calls[c].at \in {"primary", "fallback"}
  /\ calls' = [calls EXCEPT ![c] =
        [@ EXCEPT !.at = "done", !.outcome = calls[c].at,
                  !.primary_event = IF calls[c].at = "primary" THEN "returned" ELSE @,
                  !.fallback_event = IF calls[c].at = "fallback" THEN "returned" ELSE @]]
  /\ llm_use_fallback' = FALSE
  /\ UNCHANGED <<search_use_fallback, orchVars, unitVars>>

\* the awaited backend call returns: its result is returned unchanged
LLMBackendReturns(c) ==
  /\ calls[c].method \in LLMMethods
  /\ calls[c].at \in {"primary", "fallback"}
  /\ calls' = [calls EXCEPT ![c] =
        [@ EXCEPT !.at = "done", !.outcome = calls[c].at,
                  !.primary_event = IF calls[c].at = "primary" THEN "returned" ELSE @,
                  !.fallback_event = IF calls[c].at = "fallback" THEN "returned" ELSE @]]
  /\ UNCHANGED <<llm_use_fallback, search_use_fallback, orchVars, unitVars>>

\* an except branch that re-issues the call once more after the secondary failed
LLMBackendRaises_retry(c) ==
  /\ calls[c].method \in LLMMethods
  /\ calls[c].at \in {"primary", "fallback"}
  /\ LET seen == [calls[c] EXCEPT
                    !.primary_event = IF calls[c].at = "primary" THEN "raised" ELSE @,
                    !.fallback_event = IF calls[c].at = "fallback" THEN "raised" ELSE @]
     IN IF ~llm_use_fallback \/ calls[c].fallback_calls < 2
        THEN /\ llm_use_fallback' = TRUE
             /\ calls' = [calls EXCEPT ![c] = Invoke(seen, ChooseClient(TRUE))]
        ELSE /\ llm_use_fallback' = llm_use_fallback
             /\ calls' = [calls EXCEPT ![c] = [seen EXCEPT !.at = "done", !.outcome = "raised"]]
  /\ UNCHANGED <<search_use_fallback, orchVars, unitVars>>

\* the awaited backend call raises: the except branch (llm_client.py
\* 216-227, 244-253); the recursive call chooses its client anew
LLMBackendRaises(c) ==
  /\ calls[c].method \in LLMMethods
  /\ calls[c].at \in {"primary", "fallback"}
  /\ LET seen == [calls[c] EXCEPT
                    !.primary_event = IF calls[c].at = "primary" THEN "raised" ELSE @,
                    !.fallback_event = IF calls[c].at = "fallback" THEN "raised" ELSE @]
     IN IF ~llm_use_fallback
        THEN /\ llm_use_fallback' = TRUE
             /\ calls' = [calls EXCEPT ![c] = Invoke(seen, ChooseClient(TRUE))]
        ELSE /\ llm_use_fallback' = llm_use_fallback
             /\ calls' = [calls EXCEPT ![c] = [seen EXCEPT !.at = "done", !.outcome = "raised"]]
  /\ UNCHANGED <<search_use_fallback, orchVars, unitVars>>

(***************************************************************************)
(* WebSearch._execute_search (web_search.py 235-257)                       *)
(***************************************************************************)
\* _execute_search is called: provider chosen and awaited (web_search.py 241-244)
ExecuteSearch(c) ==
  /\ calls[c].at = "idle"
  /\ calls' = [calls EXCEPT ![c] =
        Invoke([@ EXCEPT !.method = "search", !.flag_at_start = search_use_fallback],
               ChooseClient(search_use_fallback))]
  /\ UNCHANGED <<llm_use_fallback, search_use_fallback, orchVars, unitVars>>

\* a return path that gives the empty list back without trying the
\* fallback provider
ProviderReturns_no_switch(c, results) ==
  /\ calls[c].method = "search"
  /\ calls[c].at \in {"primary", "fallback"}
  /\ search_use_fallback' = search_use_fallback
  /\ calls' = [calls EXCEPT ![c] =
        [@ EXCEPT !.at = "done",
                  !.primary_event = IF calls[c].at = "primary" THEN results ELSE @,
                  !.fallback_event = IF calls[c].at = "fallback" THEN results ELSE @,
                  !.outcome = IF results = "empty" THEN "empty" ELSE calls[c].at]]
  /\ UNCHANGED <<llm_use_fallback, orchVars, unitVars>>

\* provider.search of line 244 returns; results is "empty" or "results"
\* (web_search.py 244-250)
ProviderReturns(c, results) ==
  /\ calls[c].method = "search"
  /\ calls[c].at \in {"primary", "fallback"}
  /\ LET seen == [calls[c] EXCEPT
                    !.primary_event = IF calls[c].at = "primary" THEN results ELSE @,
                    !.fallback_event = IF calls[c].at = "fallback" THEN results ELSE @]
     IN IF results = "empty" /\ ~search_use_fallback
        THEN /\ search_use_fallback' = TRUE
             /\ calls' = [calls EXCEPT ![c] =
                   [Invoke(seen, "fallback") EXCEPT !.at = "fallback_inline"]]
        ELSE /\ search_use_fallback' = search_use_fallback
             /\ calls' = [calls EXCEPT ![c] =
                   [seen EXCEPT !.at = "done",
                                !.outcome = IF results = "empty" THEN "empty" ELSE calls[c].at]]
  /\ UNCHANGED <<llm_use_fallback, orchVars, unitVars>>

\* fallback_provider.search of line 249 returns (web_search.py 249-250)
InlineFallbackReturns(c, results) ==
  /\ calls[c].method = "search"
  /\ calls[c].at = "fallback_inline"
  /\ calls' = [calls EXCEPT ![c] =
        [@ EXCEPT !.at = "done", !.fallback_event = results,
                  !.outcome = IF results = "empty" THEN "empty" ELSE "fallback"]]
  /\ UNCHANGED <<llm_use_fallback, search_use_fallback, orchVars, unitVars>>

\* an except branch that lets the exception out once the flag is set
ProviderRaises_propagate(c) ==
  /\ calls[c].method = "search"
  /\ calls[c].at \in {"primary", "fallback", "fallback_inline"}
  /\ LET seen == [calls[c] EXCEPT
                    !.primary_event = IF calls[c].at = "primary" THEN "raised" ELSE @,
                    !.fallback_event = IF calls[c].at # "primary" THEN "raised" ELSE @]
     IN IF ~search_use_fallback
        THEN /\ search_use_fallback' = TRUE
             /\ calls' = [calls EXCEPT ![c] = Invoke(seen, ChooseClient(TRUE))]
        ELSE /\ search_use_fallback' = search_use_fallback
             /\ calls' = [calls EXCEPT ![c] = [seen EXCEPT !.at = "done", !.outcome = "raised"]]
  /\ UNCHANGED <<llm_use_fallback, orchVars, unitVars>>

\* either awaited provider call raises: the except branch (web_search.py 251-257)
ProviderRaises(c) ==
  /\ calls[c].method = "search"
  /\ calls[c].at \in {"primary", "fallback", "fallback_inline"}
  /\ LET seen == [calls[c] EXCEPT
                    !.primary_event = IF calls[c].at = "primary" THEN "raised" ELSE @,
                    !.fallback_event = IF calls[c].at # "primary" THEN "raised" ELSE @]
     IN IF ~search_use_fallback
        THEN /\ search_use_fallback' = TRUE
             /\ calls' = [calls EXCEPT ![c] = Invoke(seen, ChooseClient(TRUE))]
        ELSE /\ search_use_fallback' = search_use_fallback
             /\ calls' = [calls EXCEPT ![c] = [seen EXCEPT !.at = "done", !.outcome = "empty"]]
  /\ UNCHANGED <<llm_use_fallback, orchVars, unitVars>>

SearchResults == {"empty", "results"}

\* logical calls through one LLMClient and one WebSearch, from any task
NextFallback ==
  \/ \E c \in Calls, m \in LLMMethods : Generate(c, m)
  \/ \E c \in Calls : LLMBackendReturns(c)
  \/ \E c \in Calls : LLMBackendRaises(c)
  \/ \E c \in Calls : ExecuteSearch(c)
  \/ \E c \in Calls, r \in SearchResults : ProviderReturns(c, r)
  \/ \E c \in Calls, r \in SearchResults : InlineFallbackReturns(c, r)
  \/ \E c \in Calls : ProviderRaises(c)

SpecFallback == Init /\ [][NextFallback]_vars

\* concurrent research() calls on one orchestrator, made without a
\* progress callback
Next ==
  \/ \E q \in Queries : Research(q, TRUE, FALSE)
  \/ \E s \in Sessions : RunStage(s)
  \/ \E s \in Sessions : StageRaises(s)
  \/ \E s \in Sessions : AnalyzeReturns(s)
  \/ \E s \in Sessions, r \in SomeSearchOutcomes : SearchReturns(s, r)
  \/ \E s \in Sessions : ExtractReturns(s)
  \/ \E s \in Sessions : ChainOfThoughtReturns(s, <<"step">>)
  \/ \E s \in Sessions : SynthesizeReturns(s, FullDict(-1))
  \/ \E s \in Sessions : VerifyReturns(s, FullDict(90))
  \/ \E s \in Sessions : AssessReturns(s, 90)
  \/ \E s \in Sessions : CitationsReturn(s, FullDict(-1))
  \/ \E s \in Sessions : OutputReturns(s, "summary")
  \/ \E s \in Sessions : MarkComplete(s)
  \/ \E s \in Sessions : HandleFailure(s)
  \/ \E s \in Sessions, f \in SomeFallbackOutcomes : FallbackReturns(s, f)
  \/ \E s \in Sessions : Finally(s)

Spec == Init /\ [][Next]_vars

\* research() called on a fresh orchestrator
ResearchOnce(query, verify_claims, progress_callback) ==
  /\ session_counter = 0
  /\ Research(query, verify_claims, progress_callback)

\* one research() call, with every collaborator outcome
NextSession ==
  \/ \E q \in Queries, v \in BOOLEAN, cb \in BOOLEAN : ResearchOnce(q, v, cb)
  \/ \E s \in Sessions : RunStage(s)
  \/ \E s \in Sessions : StageRaises(s)
  \/ \E s \in Sessions : AnalyzeReturns(s)
  \/ \E s \in Sessions, r \in AllSearchOutcomes : SearchReturns(s, r)
  \/ \E s \in Sessions : ExtractReturns(s)
  \/ \E s \in Sessions, c \in ReasoningChains : ChainOfThoughtReturns(s, c)
  \/ \E s \in Sessions, d \in SynthesisResults : SynthesizeReturns(s, d)
  \/ \E s \in Sessions, d \in VerificationResults : VerifyReturns(s, d)
  \/ \E s \in Sessions, c \in CredibilityScores : AssessReturns(s, c)
  \/ \E s \in Sessions, d \in CitationResults : CitationsReturn(s, d)
  \/ \E s \in Sessions, t \in SummaryTexts : OutputReturns(s, t)
  \/ \E s \in Sessions : MarkComplete(s)
  \/ \E s \in Sessions : CompleteCallbackRaises(s)
  \/ \E s \in Sessions : HandleFailure(s)
  \/ \E s \in Sessions, f \in AllFallbackOutcomes : FallbackReturns(s, f)
  \/ \E s \in Sessions : Finally(s)

SpecSession == Init /\ [][NextSession]_vars

(***************************************************************************)
(* _calculate_confidence called directly on a session, as a unit test or   *)
(* another caller of the method would                                      *)
(***************************************************************************)
\* length of the source list of that session
MaxSourceCount == 2
\* number of entries of progress.errors of that session
MaxErrors == 10
\* credibility_score values of the sources, in percent; the field is a
\* plain float, so values outside [0, 100] are included
CredibilityInputs == {-50, 0, 70, 100, 150}
\* session.verification: None, {}, a dict without "overall_confidence",
\* dicts with that figure (in percent)
VerificationInputs ==
  {None, Some(EmptyDict), Some(FullDict(-1)), Some(FullDict(0)),
   Some(FullDict(90)), Some(FullDict(150))}

SourceWith(score) ==
  [url |-> "u1", credibility_score |-> score, credibility_level |-> "medium"]

SessionWith(scores, verification, error_count) ==
  [NewSession("q1") EXCEPT
     !.sources = [i \in 1..Len(scores) |-> SourceWith(scores[i])],
     !.verification = verification,
     !.progress.errors = [i \in 1..error_count |-> <<WEB_SEARCH, MsgCollaborator>>]]

ConfidenceInputs ==
  {SessionWith(scores, v, e) :
     scores \in SeqsUpTo(CredibilityInputs, MaxSourceCount),
     v \in VerificationInputs,
     e \in 0..MaxErrors}

InitConfidence ==
  /\ InitPipeline /\ InitErrorHandler /\ IdleDedup /\ IdleWebSearch
  /\ conf_session \in ConfidenceInputs
  /\ conf_result = None

\* self._calculate_confidence(session) is called and returns
CalculateConfidence ==
  /\ IsNone(conf_result)
  /\ conf_result' = Some(_calculate_confidence(conf_session))
  /\ UNCHANGED <<conf_session, orchVars, clientVars, historyVars, retryVars, dedupVars, wsVars>>

NextConfidence == CalculateConfidence

SpecConfidence == InitConfidence /\ [][NextConfidence]_vars

(***************************************************************************)
(* ErrorHandler.record_error (error_handling.py 157-186)                   *)
(***************************************************************************)
\* self.max_history (error_handling.py 155)
max_history == 100

\* the last n elements of a list: seq[-n:] for n >= 1
LastN(seq, n) == IF Len(seq) <= n THEN seq ELSE SubSeq(seq, Len(seq) - n + 1, Len(seq))

\* a trim that keeps the head of the list
record_error_keep_head(history, record) ==
  LET appended == Append(history, record)
  IN IF Len(appended) > max_history THEN SubSeq(appended, 1, max_history) ELSE appended

\* error_history after record_error: append, then keep the last max_history
\* (error_handling.py 182-186)
record_error(history, record) ==
  LET appended == Append(history, record)
  IN IF Len(appended) > max_history THEN LastN(appended, max_history) ELSE appended

\* record_error is called; a record is identified by the number of the
\* call that made it
RecordError ==
  /\ records_made < MaxRecords
  /\ records_made' = records_made + 1
  /\ error_history' = record_error(error_history, records_made + 1)
  /\ UNCHANGED <<orchVars, clientVars, confVars, retryVars, dedupVars, wsVars>>

NextHistory == RecordError

SpecHistory == Init /\ [][NextHistory]_vars

(***************************************************************************)
(* The de-duplication of _search_web (orchestrator.py 300-324) applied to  *)
(* a given concatenated result list                                        *)
(***************************************************************************)
DedupInputs ==
  [all_results : AllSearchOutcomes, max_sources : 1..MaxResults]

InitDedup ==
  /\ InitPipeline /\ IdleConfidence /\ InitErrorHandler /\ IdleWebSearch
  /\ dedup_input \in DedupInputs
  /\ dedup_output = None

\* the loop, the slice and the construction of the sources, with every
\* extract_content call returning
Deduplicate ==
  /\ IsNone(dedup_output)
  /\ LET found == Take(unique_results(dedup_input.all_results), dedup_input.max_sources)
     IN dedup_output' =
          Some([search_results |-> found,
                sources |-> [i \in 1..Len(found) |-> NewSource(found[i].url)]])
  /\ UNCHANGED <<dedup_input, orchVars, clientVars, confVars, historyVars, retryVars, wsVars>>

NextDedup == Deduplicate

SpecDedup == InitDedup /\ [][NextDedup]_vars

(***************************************************************************)
(* WebSearch.search (web_search.py 127-172) and _process_results           *)
(* (web_search.py 259-323), applied to given provider results              *)
(***************************************************************************)
HitUrls == {h.url : h \in SearchHits}

\* a URL the relevance evaluation has no entry for (also every URL when
\* the evaluation call raised and evaluated is {})
NotEvaluated == -1
\* eval_data.get("relevance_score", 5) (web_search.py 310)
DefaultRelevance == 5
RelevanceInputs == {NotEvaluated, 2, 8}

relevance_score(evaluated, url) ==
  IF evaluated[url] = NotEvaluated THEN DefaultRelevance ELSE evaluated[url]

\* "if score >= 0.8 ... elif score >= 0.5 ..." (web_search.py 383-390),
\* scores in percent
_score_to_level(score) ==
  IF score >= 80 THEN "high" ELSE IF score >= 50 THEN "medium" ELSE "low"

\* the Source built for one result (web_search.py 301-315)
WebSource(hit, evaluated) ==
  [url |-> hit.url, title |-> hit.title,
   relevance_score |-> relevance_score(evaluated, hit.url)]

\* sources.sort(key=relevance_score, reverse=True) (web_search.py 318-321):
\* list.sort is stable, so equal scores keep their order
sort_by_relevance(sources) ==
  LET F[i \in 0..Len(sources)] ==
        IF i = 0 THEN <<>>
        ELSE LET x == sources[i]
                 ahead == SelectSeq(F[i-1], LAMBDA y : y.relevance_score >= x.relevance_score)
                 behind == SelectSeq(F[i-1], LAMBDA y : y.relevance_score < x.relevance_score)
             IN ahead \o <<x>> \o behind
  IN F[Len(sources)]

\* _process_results (web_search.py 259-323)
_process_results(results, evaluated) ==
  IF results = <<>> THEN <<>>
  ELSE sort_by_relevance([i \in DOMAIN results |-> WebSource(results[i], evaluated)])

WebSearchInputs ==
  [all_results : AllSearchOutcomes,
   evaluated : [HitUrls -> RelevanceInputs],
   max_results : 1..MaxResults]

InitWebSearch ==
  /\ InitPipeline /\ IdleConfidence /\ InitErrorHandler /\ IdleDedup
  /\ ws_input \in WebSearchInputs
  /\ ws_output = None

\* search() from the de-duplication on (web_search.py 160-172); the loop is
\* the one of _search_web
WebSearchSearch ==
  /\ IsNone(ws_output)
  /\ ws_output' =
       Some(_process_results(Take(unique_results(ws_input.all_results), ws_input.max_results),
                             ws_input.evaluated))
  /\ UNCHANGED <<ws_input, orchVars, clientVars, confVars, historyVars, retryVars, dedupVars>>

NextWebSearch == WebSearchSearch

SpecWebSearch == InitWebSearch /\ [][NextWebSearch]_vars

(***************************************************************************)
(* ErrorHandler.retry_with_backoff (error_handling.py 492-536), called by  *)
(* tasks that run on one event loop                                        *)
(***************************************************************************)
\* positions at which a task would hold the event loop while it waits:
\* time.sleep in place of asyncio.sleep
BlockingPositions_sleep == {"sleep"}

\* positions at which a task holds the event loop while it waits: none,
\* func and asyncio.sleep are both awaited (error_handling.py 524, 533)
BlockingPositions == {}

\* the event loop can resume task t
LoopAvailable(t) ==
  \A u \in RetryTasks \ {t} : retry[u].at \notin BlockingPositions

\* a loop test that allows one more round
MoreAttempts_inclusive(attempt, max_attempts) == attempt <= max_attempts

\* "if attempt < max_attempts", which for range(1, max_attempts + 1) is also
\* whether the for loop has another round (error_handling.py 522, 529)
MoreAttempts(attempt, max_attempts) == attempt < max_attempts

backoff_factor == 2

\* a loop that tests max_attempts only after the first round
RetryWithBackoff_at_least_once(t, max_attempts) ==
  /\ retry[t].at = "idle"
  /\ LoopAvailable(t)
  /\ retry' = [retry EXCEPT ![t] =
        [@ EXCEPT !.at = "func", !.max_attempts = max_attempts,
                  !.attempt = 1, !.invocations = 1]]
  /\ UNCHANGED <<orchVars, clientVars, confVars, historyVars, dedupVars, wsVars>>

\* retry_with_backoff is called: with max_attempts >= 1 the loop is entered
\* and func awaited; otherwise the loop body never runs and
\* "raise last_exception" raises None, a TypeError
RetryWithBackoff(t, max_attempts) ==
  /\ retry[t].at = "idle"
  /\ LoopAvailable(t)
  /\ retry' = [retry EXCEPT ![t] =
        IF max_attempts >= 1
        THEN [@ EXCEPT !.at = "func", !.max_attempts = max_attempts,
                       !.attempt = 1, !.invocations = 1]
        ELSE [@ EXCEPT !.at = "done", !.max_attempts = max_attempts,
                       !.outcome = [kind |-> "raised_type_error", invocation |-> 0]]]
  /\ UNCHANGED <<orchVars, clientVars, confVars, historyVars, dedupVars, wsVars>>

\* the awaited func returns: its result is returned (error_handling.py 524)
FuncReturns(t) ==
  /\ retry[t].at = "func"
  /\ LoopAvailable(t)
  /\ retry' = [retry EXCEPT ![t] =
        [@ EXCEPT !.at = "done",
                  !.outcome = [kind |-> "returned", invocation |-> retry[t].invocations]]]
  /\ UNCHANGED <<orchVars, clientVars, confVars, historyVars, dedupVars, wsVars>>

\* the awaited func raises: the except branch, and the raise after the loop
\* when this was the last round (error_handling.py 525-536)
FuncRaises(t) ==
  /\ retry[t].at = "func"
  /\ LoopAvailable(t)
  /\ retry' = [retry EXCEPT ![t] =
        IF MoreAttempts(retry[t].attempt, retry[t].max_attempts)
        THEN [@ EXCEPT !.at = "sleep", !.last_exception = retry[t].invocations,
                       !.sleeps = Append(@, retry[t].delay)]
        ELSE [@ EXCEPT !.at = "done", !.last_exception = retry[t].invocations,
                       !.outcome = [kind |-> "raised", invocation |-> retry[t].invocations]]]
  /\ UNCHANGED <<orchVars, clientVars, confVars, historyVars, dedupVars, wsVars>>

\* a backoff that adds backoff_factor to the delay
SleepEnds_additive(t) ==
  /\ retry[t].at = "sleep"
  /\ LoopAvailable(t)
  /\ retry' = [retry EXCEPT ![t] =
        [@ EXCEPT !.at = "func", !.delay = @ + backoff_factor,
                  !.attempt = @ + 1, !.invocations = @ + 1]]
  /\ UNCHANGED <<orchVars, clientVars, confVars, historyVars, dedupVars, wsVars>>

\* asyncio.sleep(delay) ends: delay grows and the next round awaits func
\* (error_handling.py 533-534, 522-524)
SleepEnds(t) ==
  /\ retry[t].at = "sleep"
  /\ LoopAvailable(t)
  /\ retry' = [retry EXCEPT ![t] =
        [@ EXCEPT !.at = "func", !.delay = @ * backoff_factor,
                  !.attempt = @ + 1, !.invocations = @ + 1]]
  /\ UNCHANGED <<orchVars, clientVars, confVars, historyVars, dedupVars, wsVars>>

\* a step of task t in retry_with_backoff
RetryStep(t) ==
  \/ \E m \in -1..MaxAttempts : RetryWithBackoff(t, m)
  \/ FuncReturns(t)
  \/ FuncRaises(t)
  \/ SleepEnds(t)

NextRetry == \E t \in RetryTasks : RetryStep(t)

\* every func call and every sleep ends, and the event loop resumes each
\* task that can go on
SpecRetry ==
  Init /\ [][NextRetry]_vars /\ \A t \in RetryTasks : WF_vars(RetryStep(t))

(***************************************************************************)
(* Properties                                                              *)
(***************************************************************************)
Range(seq) == {seq[i] : i \in DOMAIN seq}
Created == 1..session_counter
IsPrefix(a, b) == Len(a) <= Len(b) /\ SubSeq(b, 1, Len(a)) = a
IsStrictlyIncreasing(idx) == \A i, j \in DOMAIN idx : i < j => idx[i] < idx[j]
Completed(s) == sessions[s].progress.stages_completed
CompletedIndexes(s) == [i \in DOMAIN Completed(s) |-> StageIndex(Completed(s)[i])]
CanonicalOrder == SubSeq(ResearchStage, 1, total_stages)
\* the stages research() runs for a given verify_claims, in order
PlannedOrder(verify_claims) ==
  SelectSeq(CanonicalOrder, LAMBDA st : verify_claims \/ st # VERIFICATION)

\* C1: research() always returns a ResearchResult to its caller; no call
\* ends with an exception propagating out of it.
C1_NeverPropagates ==
  \A s \in Sessions : result[s].kind # "raised"

\* C2: once research() has returned (or otherwise ended), the session id it
\* created is not a key of active_sessions, whatever the other calls do.
C2_SessionCleanedUp ==
  \A s \in Sessions : pc[s] = "done" => s \notin Range(active_sessions)

\* two overlapping calls have ended, one on the success path and one on the
\* failure path
C2_Witness ==
  \E s, t \in Sessions :
    /\ pc[s] = "done" /\ result[s].kind = "returned" /\ ~result[s].value[1].partial
    /\ pc[t] = "done" /\ result[t].kind = "returned" /\ result[t].value[1].partial
    /\ s < t /\ sessions[s].query = sessions[t].query

\* C3: stages_completed has no duplicates and follows the canonical order;
\* a canonical stage missing before a completed one can only be
\* verification, and only when verify_claims is false.
C3_CanonicalOrderWithOptionalVerification ==
  \A s \in Created :
    /\ IsStrictlyIncreasing(CompletedIndexes(s))
    /\ \A i \in 1..total_stages, j \in 1..total_stages :
         (i < j /\ ResearchStage[j] \in Range(Completed(s))
                /\ ResearchStage[i] \notin Range(Completed(s)))
         => (ResearchStage[i] = VERIFICATION /\ ~frame[s].verify_claims)

\* verification was skipped and a later stage is completed
C3_Witness ==
  \E s \in Created :
    /\ ~frame[s].verify_claims
    /\ CITATION \in Range(Completed(s))
    /\ VERIFICATION \notin Range(Completed(s))

\* C4 (as stated): stages_completed is always a prefix of the canonical
\* stage order, whatever verify_claims is.
C4_PrefixOfCanonicalOrder ==
  \A s \in Created : IsPrefix(Completed(s), CanonicalOrder)

\* C4 (amended): stages_completed is always a prefix of the canonical stage
\* order from which verification is removed when verify_claims is false.
C4_PrefixOfPlannedOrder ==
  \A s \in Created : IsPrefix(Completed(s), PlannedOrder(frame[s].verify_claims))

\* a run without verification has completed every stage it runs
C4_Witness ==
  \E s \in Created :
    /\ ~frame[s].verify_claims
    /\ Completed(s) = PlannedOrder(FALSE)

\* C5: progress_percentage of a session never decreases from one step to
\* the next.
C5_ProgressNeverDecreases ==
  [][\A s \in Sessions :
       progress_percentage(sessions'[s].progress) >= progress_percentage(sessions[s].progress)]_vars

\* a stage failed after earlier stages had completed
C5_Witness ==
  \E s \in Created :
    /\ Len(Completed(s)) >= 3
    /\ Len(sessions[s].progress.errors) >= 1
    /\ pc[s] = "done"

\* C6 (as stated): progress_percentage is 100 only if current_stage is complete.
C6_FullOnlyWhenComplete ==
  \A s \in Created :
    progress_percentage(sessions[s].progress) = 10000
    => sessions[s].progress.current_stage = COMPLETE

\* C6 (amended): progress_percentage is 100 only if current_stage is
\* complete, or current_stage is still output_generation and research() is
\* between the completion bookkeeping of that stage and the assignment of
\* COMPLETE.
C6_FullOnlyAfterOutputGeneration ==
  \A s \in Created :
    progress_percentage(sessions[s].progress) = 10000
    => \/ sessions[s].progress.current_stage = COMPLETE
       \/ /\ sessions[s].progress.current_stage = OUTPUT_GENERATION
          /\ pc[s] = "ready" /\ frame[s].stage = COMPLETE
          /\ Completed(s)[Len(Completed(s))] = OUTPUT_GENERATION

\* all six stages are completed and COMPLETE is not assigned yet
C6_Witness ==
  \E s \in Created :
    /\ progress_percentage(sessions[s].progress) = 10000
    /\ sessions[s].progress.current_stage = OUTPUT_GENERATION

IsLLMCall(c) == calls[c].method \in LLMMethods

\* C7: when the primary raised for a call and the secondary then succeeded,
\* that call returns the secondary's result; a call started after the
\* failover never invokes the primary.
C7_StickyFailover ==
  \A c \in Calls : IsLLMCall(c) =>
    /\ (calls[c].primary_event = "raised" /\ calls[c].fallback_event = "returned")
         => (calls[c].at = "done" /\ calls[c].outcome = "fallback")
    /\ calls[c].flag_at_start
         => (calls[c].primary_calls = 0 /\ calls[c].at \in {"fallback", "done"})

\* one call failed over and got the secondary's result, a later call was
\* served by the secondary alone
C7_Witness ==
  \E c, d \in Calls :
    /\ IsLLMCall(c) /\ IsLLMCall(d)
    /\ ~calls[c].flag_at_start /\ calls[c].primary_event = "raised"
    /\ calls[c].outcome = "fallback"
    /\ calls[d].flag_at_start /\ calls[d].outcome = "fallback"
    /\ calls[d].primary_calls = 0

\* C8: whenever the primary attempt of a logical call raises, use_fallback
\* is set and that call is re-issued to the secondary backend, also with
\* other calls in flight.
C8_EveryPrimaryFailureReissued ==
  \A c \in Calls : (IsLLMCall(c) /\ calls[c].primary_event = "raised") =>
    /\ llm_use_fallback
    /\ calls[c].fallback_calls >= 1

\* C9: _use_fallback is false on a new client and never goes from true
\* back to false (LLMClient and WebSearch).
C9_FlagSticky ==
  /\ (~llm_use_fallback /\ ~search_use_fallback)
  /\ [][/\ llm_use_fallback => llm_use_fallback'
        /\ search_use_fallback => search_use_fallback']_vars

\* both flags are set, and a call started after that has failed on the
\* secondary, which leaves the flag set
C9_Witness ==
  /\ llm_use_fallback /\ search_use_fallback
  /\ \E c \in Calls :
       /\ calls[c].flag_at_start /\ calls[c].at = "done"
       /\ calls[c].fallback_event = "raised"

\* C10: a logical LLM call invokes each backend at most once, and when both
\* backends raised for it the exception reaches the caller.
C10_OneHopThenPropagate ==
  \A c \in Calls : IsLLMCall(c) =>
    /\ calls[c].primary_calls <= 1
    /\ calls[c].fallback_calls <= 1
    /\ (calls[c].primary_event = "raised" /\ calls[c].fallback_event = "raised")
         => (calls[c].at = "done" /\ calls[c].outcome = "raised")

\* both backends raised for one call
C10_Witness ==
  \E c \in Calls :
    /\ IsLLMCall(c)
    /\ calls[c].primary_event = "raised" /\ calls[c].fallback_event = "raised"
    /\ calls[c].primary_calls = 1 /\ calls[c].fallback_calls = 1

\* the inputs of the aggregator in the session handed to it
ConfSources == conf_session.sources
ConfErrors == Len(conf_session.progress.errors)
\* the signals that exist for a session, in units of 1/ConfUnit: the average
\* source credibility when there is a source, the verification confidence
\* when there is a verification result with content (0.5 when it carries
\* no figure), the source-count term always
AverageCredibility(sess) ==
  (SumScores(sess.sources) * (ConfUnit \div 100)) \div Len(sess.sources)
VerificationConfidence(sess) ==
  IF sess.verification[1].overall_confidence < 0
  THEN ConfUnit \div 2
  ELSE sess.verification[1].overall_confidence * (ConfUnit \div 100)
SourceCountTerm(sess) ==
  IF Len(sess.sources) >= 10 THEN ConfUnit ELSE (Len(sess.sources) * ConfUnit) \div 10
AvailableSignals(sess) ==
  (IF Len(sess.sources) > 0 THEN <<AverageCredibility(sess)>> ELSE <<>>)
  \o (IF Truthy(sess.verification) THEN <<VerificationConfidence(sess)>> ELSE <<>>)
  \o <<SourceCountTerm(sess)>>
Clamp(x, lo, hi) == IF x < lo THEN lo ELSE IF x > hi THEN hi ELSE x
ClampedMeanOfSignals(sess) ==
  Clamp((SumSeq(AvailableSignals(sess)) \div Len(AvailableSignals(sess)))
          - Len(sess.progress.errors) * (ConfUnit \div 10),
        0, ConfUnit)

\* C11: the confidence _calculate_confidence returns lies in [0.0, 1.0] for
\* every source list, credibility values, verification figure and number
\* of recorded errors.
C11_ConfidenceInUnitInterval ==
  ~IsNone(conf_result) => (0 <= conf_result[1] /\ conf_result[1] <= ConfUnit)

\* the upper end of the clamp has acted: with no error recorded the mean
\* of the signals of this session is above 1.0
C11_Witness ==
  /\ ~IsNone(conf_result)
  /\ ConfErrors = 0
  /\ conf_result[1] = ConfUnit
  /\ SumSeq(AvailableSignals(conf_session)) > ConfUnit * Len(AvailableSignals(conf_session))

\* C12: for a session with no sources, no verification result and no
\* recorded error the aggregator returns the neutral default 0.5.
C12_NeutralDefaultWithoutSignals ==
  (/\ ~IsNone(conf_result)
   /\ ConfSources = <<>>
   /\ IsNone(conf_session.verification)
   /\ ConfErrors = 0)
  => 2 * conf_result[1] = ConfUnit

Degraded(s) ==
  /\ pc[s] = "done"
  /\ result[s].kind = "returned"
  /\ result[s].value[1].partial
\* a research() call has ended by returning session.final_result
Succeeded(s) ==
  /\ pc[s] = "done"
  /\ result[s].kind = "returned"
  /\ ~result[s].value[1].partial
Errors(s) == sessions[s].progress.errors
ResultOf(s) == result[s].value[1]
Urls_of(srcs) == [i \in DOMAIN srcs |-> srcs[i].url]

\* C14: when a stage raised, the ResearchResult research() returns has
\* verification_status "failed", confidence 0.2, metadata.partial true and
\* metadata.error equal to the message of the exception the stage raised.
C14_DegradedResultFields ==
  \A s \in Created :
    (pc[s] = "done" /\ result[s].kind = "returned" /\ Errors(s) # <<>>) =>
      /\ ResultOf(s).verification_status = "failed"
      /\ 5 * ResultOf(s).confidence = ConfUnit
      /\ ResultOf(s).partial
      /\ ResultOf(s).error = Errors(s)[Len(Errors(s))][2]

\* the verification stage raised after three stages had completed, and the
\* call returned the degraded result
C14_Witness ==
  \E s \in Created :
    /\ Degraded(s)
    /\ Len(Errors(s)) = 1
    /\ Errors(s)[1] = <<VERIFICATION, MsgCollaborator>>
    /\ ResultOf(s).sources # <<>>

\* C15: when the LLM call of the fallback-content generator fails, the
\* degraded-output path does not raise and its result has the hardcoded
\* apology as answer and confidence 0.0.
C15_ApologyWithZeroConfidence ==
  [][\A s \in Sessions :
       (pc[s] = "fallback" /\ FallbackReturns(s, LLMRaises)) =>
         /\ ~frame'[s].raising
         /\ ~IsNone(frame'[s].pending)
         /\ frame'[s].pending[1].answer = HardcodedApology
         /\ frame'[s].pending[1].confidence = 0]_vars

\* C16: the answer of a degraded result is a non-empty text, whatever the
\* partial session state and whatever the fallback-content generator gave.
C16_DegradedAnswerNonEmpty ==
  \A s \in Created : Degraded(s) => ResultOf(s).answer # ""

\* C17: the sources of a degraded result are the session's sources, which
\* do not change once the failure is caught; they are empty when the
\* failure was in query analysis or in web search.
C17_DegradedSourcesAreSessionSources ==
  /\ [](\A s \in Created : Degraded(s) =>
         /\ ResultOf(s).sources = sessions[s].sources
         /\ (Errors(s) # <<>> /\ Errors(s)[1][1] \in {QUERY_ANALYSIS, WEB_SEARCH})
              => ResultOf(s).sources = <<>>)
  /\ [][\A s \in Sessions :
          pc[s] \in {"failed", "fallback", "finally"}
          => sessions'[s].sources = sessions[s].sources]_vars

\* the web search stage raised in extract_content, after search_results
\* had been stored
C17_Witness ==
  \E s \in Created :
    /\ Degraded(s)
    /\ Errors(s) # <<>>
    /\ Errors(s)[1][1] = WEB_SEARCH
    /\ sessions[s].search_results # <<>>
    /\ ResultOf(s).sources = <<>>

\* C18: a run in which every stage succeeded, verification included, has
\* verification_status "verified" whatever the verification collaborator
\* returned; "unverified" is only for runs that skipped verification; the
\* sources are the de-duplicated search results.
C18_VerifiedWhenAllStagesSucceed ==
  \A s \in Created : Succeeded(s) =>
    /\ frame[s].verify_claims => ResultOf(s).verification_status = "verified"
    /\ ResultOf(s).verification_status = "unverified" => ~frame[s].verify_claims
    /\ Urls_of(ResultOf(s).sources) = Urls_of(sessions[s].search_results)
    /\ \A i, j \in DOMAIN ResultOf(s).sources :
         ResultOf(s).sources[i].url = ResultOf(s).sources[j].url => i = j

\* C19: a session object is written only in steps of the research() call
\* that created it (every step of a call moves that call's own position
\* or locals), also when two active sessions have the same query.
C19_SessionWrittenByOwnTaskOnly ==
  [][\A t \in Sessions :
       sessions'[t] # sessions[t] => (pc'[t] # pc[t] \/ frame'[t] # frame[t])]_vars

\* the queries of the active sessions are pairwise different
DistinctQueries ==
  \A i, j \in 1..Len(active_sessions) :
    i # j => sessions[active_sessions[i]].query # sessions[active_sessions[j]].query

\* C20: when the active sessions have pairwise different queries, the
\* lookup made by the query-analysis stage of a call returns the session
\* that call created.
C20_LookupFindsOwnSession ==
  [][\A s \in Sessions :
       (/\ pc[s] = "ready" /\ frame[s].stage = QUERY_ANALYSIS
        /\ DistinctQueries
        /\ pc'[s] # pc[s])
       => (pc'[s] = "in_stage" /\ frame'[s].target = s)]_vars

\* the second of two active sessions with different queries has looked
\* itself up
C20_Witness ==
  \E s \in Created :
    /\ s > 1
    /\ pc[s] = "in_stage" /\ frame[s].stage = QUERY_ANALYSIS
    /\ frame[s].target = s
    /\ active_sessions[1] # s
    /\ DistinctQueries

ExpectedCallbacks(verify_claims) ==
  [i \in 1..Len(PlannedOrder(verify_claims)) |->
     <<PlannedOrder(verify_claims)[i], ((i - 1) * 10000) \div total_stages>>]
  \o << <<COMPLETE, 10000>> >>

\* C22: a progress callback given to research() is invoked at the start of
\* every stage that is run, with the stage and the percentage before it,
\* in stage order, and once with (complete, 100.0) after the last stage.
C22_CallbackAtEveryStage ==
  \A s \in Created :
    (frame[s].progress_callback /\ Succeeded(s))
    => callbacks[s] = ExpectedCallbacks(frame[s].verify_claims)

IsSearchCall(c) == calls[c].method = "search"

\* C23: when the primary provider returns an empty list while use_fallback
\* is false, _execute_search sets the flag and asks the fallback provider
\* within the same call, whose results it returns; a call started with
\* the flag set goes to the fallback provider only.
C23_EmptyPrimarySwitchesToFallback ==
  /\ [](\A c \in Calls : IsSearchCall(c) =>
         /\ (calls[c].primary_event = "empty" /\ calls[c].fallback_event = "results")
              => (calls[c].at = "done" /\ calls[c].outcome = "fallback")
         /\ calls[c].flag_at_start => calls[c].primary_calls = 0)
  /\ [][\A c \in Calls :
          (/\ IsSearchCall(c) /\ calls[c].at = "primary"
           /\ ~search_use_fallback
           /\ calls'[c].primary_event = "empty")
          => /\ search_use_fallback'
             /\ calls'[c].at = "fallback_inline"
             /\ calls'[c].fallback_calls = 1]_vars

\* the primary gave an empty list, the same call returned the fallback's
\* results, and a later call was served by the fallback alone
C23_Witness ==
  \E c, d \in Calls :
    /\ IsSearchCall(c) /\ IsSearchCall(d)
    /\ ~calls[c].flag_at_start
    /\ calls[c].primary_event = "empty" /\ calls[c].outcome = "fallback"
    /\ calls[d].flag_at_start /\ calls[d].primary_calls = 0
    /\ calls[d].outcome = "fallback"

\* C24: error_history never holds more than max_history records; it holds
\* the most recent records, oldest first.
C24_BoundedFifoHistory ==
  /\ Len(error_history) <= 100
  /\ LET kept == IF records_made < 100 THEN records_made ELSE 100
     IN error_history = [i \in 1..kept |-> records_made - kept + i]

\* more records were made than the history holds: the first ones are gone
C24_Witness ==
  /\ records_made > 100
  /\ Len(error_history) = 100
  /\ error_history[1] = records_made - 99
  /\ error_history[100] = records_made

\* C25: for max_attempts >= 1, retry_with_backoff invokes func at most
\* max_attempts times; it returns the result of the first invocation that
\* succeeds and invokes nothing after it; after max_attempts failures it
\* raises the exception of the last invocation; and it terminates.
C25_RetryBoundedAndTerminates ==
  /\ [](\A t \in RetryTasks : retry[t].max_attempts >= 1 =>
         /\ retry[t].invocations <= retry[t].max_attempts
         /\ retry[t].at = "done" =>
              \/ /\ retry[t].outcome.kind = "returned"
                 /\ retry[t].outcome.invocation = retry[t].invocations
                 /\ retry[t].last_exception = retry[t].invocations - 1
              \/ /\ retry[t].outcome.kind = "raised"
                 /\ retry[t].invocations = retry[t].max_attempts
                 /\ retry[t].outcome.invocation = retry[t].max_attempts)
  /\ \A t \in RetryTasks : (retry[t].at # "idle") ~> (retry[t].at = "done")

\* one call returned the result of a later invocation after earlier ones
\* failed, another raised after using up its attempts
C25_Witness ==
  \E t, u \in RetryTasks :
    /\ retry[t].at = "done" /\ retry[t].outcome.kind = "returned"
    /\ retry[t].invocations = 2 /\ retry[t].max_attempts = 3
    /\ retry[u].at = "done" /\ retry[u].outcome.kind = "raised"
    /\ retry[u].invocations = 3

\* C26: while a task sleeps between attempts, every other task that has
\* not finished can take its next step.
C26_SleepDoesNotBlockOthers ==
  \A t, u \in RetryTasks :
    (t # u /\ retry[t].at = "sleep" /\ retry[u].at # "done")
    => ENABLED RetryStep(u)

\* one task sleeps while another is in a later round of its own call
C26_Witness ==
  \E t, u \in RetryTasks :
    /\ t # u
    /\ retry[t].at = "sleep"
    /\ retry[u].at = "func" /\ retry[u].attempt >= 2

\* C27: while a stage callable is in flight, current_stage is that stage
\* and the stage is not in stages_completed.
C27_CurrentStageIsInFlightStage ==
  \A s \in Created :
    pc[s] = "in_stage" =>
      /\ sessions[s].progress.current_stage = frame[s].stage
      /\ frame[s].stage \notin Range(Completed(s))

\* the reasoning callable is in flight after two stages have completed
C27_Witness ==
  \E s \in Created :
    /\ pc[s] = "in_stage" /\ frame[s].stage = REASONING
    /\ Completed(s) = <<QUERY_ANALYSIS, WEB_SEARCH>>
    /\ sessions[s].progress.current_stage = REASONING

\* C28: when a stage callable raises, one entry (stage, message) is
\* appended to progress.errors, stages_completed and stage_times stay as
\* they are, and research() catches the exception with that message.
C28_FailureBookkeeping ==
  [][\A s \in Sessions :
       (/\ pc[s] \in {"ready", "in_stage"} /\ frame[s].stage # COMPLETE
        /\ pc'[s] = "failed")
       => /\ sessions'[s].progress.errors =
               Append(sessions[s].progress.errors, <<frame[s].stage, frame'[s].error>>)
          /\ frame'[s].error # ""
          /\ sessions'[s].progress.stages_completed = sessions[s].progress.stages_completed
          /\ sessions'[s].progress.stage_times = sessions[s].progress.stage_times
          /\ frame[s].stage \notin sessions'[s].progress.stage_times]_vars

\* the citation callable raised after four stages had completed
C28_Witness ==
  \E s \in Created :
    /\ pc[s] = "failed"
    /\ Errors(s) = << <<CITATION, MsgCollaborator>> >>
    /\ Len(Completed(s)) = 4
    /\ CITATION \notin sessions[s].progress.stage_times

\* C29: errors and stage_times of a session only grow, and a stage that
\* completes gets an entry no earlier stage had written.
C29_BookkeepingAppendOnly ==
  [][\A s \in Sessions :
       /\ IsPrefix(sessions[s].progress.errors, sessions'[s].progress.errors)
       /\ sessions[s].progress.stage_times \subseteq sessions'[s].progress.stage_times
       /\ sessions'[s].progress.stages_completed # sessions[s].progress.stages_completed
            => /\ frame[s].stage \notin sessions[s].progress.stage_times
               /\ sessions'[s].progress.stage_times =
                    sessions[s].progress.stage_times \cup {frame[s].stage}]_vars

\* three stages have their stage_times entry and a failure is recorded
C29_Witness ==
  \E s \in Created :
    /\ sessions[s].progress.stage_times = {QUERY_ANALYSIS, WEB_SEARCH, REASONING}
    /\ Len(Errors(s)) = 1

\* the positions of the results that are the first with their URL
FirstIndexes(all_results) ==
  {i \in DOMAIN all_results : \A j \in 1..(i - 1) : all_results[j].url # all_results[i].url}
\* those results, in the order of the list
FirstOfEachUrl(all_results) ==
  LET idx == SelectSeq([i \in DOMAIN all_results |-> i],
                       LAMBDA i : i \in FirstIndexes(all_results))
  IN [k \in DOMAIN idx |-> all_results[idx[k]]]
NoSharedUrl(seq) == \A i, j \in DOMAIN seq : seq[i].url = seq[j].url => i = j

\* C30: search_results holds, for every URL, the first result of the
\* concatenated list with that URL, in list order (cut to max_sources);
\* no two entries of search_results or of sources share a URL.
C30_DedupKeepsFirstInOrder ==
  ~IsNone(dedup_output) =>
    LET expected == FirstOfEachUrl(dedup_input.all_results)
        n == IF Len(expected) < dedup_input.max_sources
             THEN Len(expected) ELSE dedup_input.max_sources
    IN /\ dedup_output[1].search_results = SubSeq(expected, 1, n)
       /\ NoSharedUrl(dedup_output[1].search_results)
       /\ NoSharedUrl(dedup_output[1].sources)
       /\ Urls_of(dedup_output[1].sources) = Urls_of(dedup_output[1].search_results)

\* [A(u1), B(u2), C(u1)] became [A, B]
C30_Witness ==
  /\ ~IsNone(dedup_output)
  /\ dedup_input.all_results = <<Hit("A", "u1"), Hit("B", "u2"), Hit("C", "u1")>>
  /\ dedup_output[1].search_results = <<Hit("A", "u1"), Hit("B", "u2")>>

\* C31: the list WebSearch.search returns has the first-occurrence results
\* in the order they had in the combined provider results.
C31_SearchKeepsProviderOrder ==
  ~IsNone(ws_output) =>
    Urls_of(ws_output[1]) =
      Urls_of(Take(FirstOfEachUrl(ws_input.all_results), ws_input.max_results))

\* b to the power n
Pow(b, n) == LET F[i \in 0..n] == IF i = 0 THEN 1 ELSE b * F[i-1] IN F[n]

\* the number of sleeps a call must have made at its position: one per
\* failed attempt that was followed, or is being followed, by another
SleepsDue(r) == IF r.at = "sleep" THEN r.invocations ELSE r.invocations - 1

\* C32: the sleep before attempt k+1 lasts initial_delay * backoff_factor^(k-1)
\* (delays in units of initial_delay); there is one sleep between two
\* consecutive attempts, none after the last failed attempt or a success.
C32_ExponentialDelays ==
  \A t \in RetryTasks : retry[t].max_attempts >= 1 =>
    /\ Len(retry[t].sleeps) = SleepsDue(retry[t])
    /\ \A k \in DOMAIN retry[t].sleeps : retry[t].sleeps[k] = Pow(2, k - 1)
    /\ Len(retry[t].sleeps) < retry[t].max_attempts

\* a call failed three times: it slept 1 and 2 units and not after the
\* last failure
C32_Witness ==
  \E t \in RetryTasks :
    /\ retry[t].at = "done" /\ retry[t].outcome.kind = "raised"
    /\ retry[t].max_attempts = 3
    /\ retry[t].sleeps = <<1, 2>>

\* C33: every source of a session has a credibility score in [0,1] (0 to
\* 100 percent) and the level derived from that score, also after the
\* verification stage has revised the score.
C33_CredibilityLevelMatchesScore ==
  \A s \in Created : \A i \in DOMAIN sessions[s].sources :
    LET source == sessions[s].sources[i]
    IN /\ 0 <= source.credibility_score /\ source.credibility_score <= 100
       /\ source.credibility_level = _score_to_level(source.credibility_score)

\* C34: progress.errors is empty whenever _calculate_confidence is
\* evaluated in a run of research(), so the confidence of a result that is
\* not degraded carries no error penalty.
C34_NoErrorPenaltyOnSuccess ==
  \A s \in Created :
    /\ (frame[s].stage = OUTPUT_GENERATION /\ pc[s] \in {"ready", "in_stage"})
         => Errors(s) = <<>>
    /\ Succeeded(s) =>
         /\ Errors(s) = <<>>
         /\ ResultOf(s).confidence =
              _calculate_confidence([sessions[s] EXCEPT !.progress.errors = <<>>])

\* a run ended with a result that is not degraded, its confidence above 0
C34_Witness ==
  \E s \in Created :
    /\ Succeeded(s)
    /\ ResultOf(s).confidence > 0
    /\ ResultOf(s).confidence = _calculate_confidence(sessions[s])

\* C35: once a stage has failed in a session, progress.errors holds that
\* one entry, current_stage stays at the failed stage and no stage is
\* started or in flight for the session any more.
C35_AbortAtFirstFailure ==
  \A s \in Created :
    Errors(s) # <<>> =>
      /\ Len(Errors(s)) = 1
      /\ sessions[s].progress.current_stage = Errors(s)[1][1]
      /\ pc[s] \in {"failed", "fallback", "finally", "done"}
      /\ Errors(s)[1][1] \notin Range(Completed(s))

\* the reasoning stage failed and the call has ended
C35_Witness ==
  \E s \in Created :
    /\ pc[s] = "done"
    /\ Errors(s) = << <<REASONING, MsgCollaborator>> >>
    /\ Completed(s) = <<QUERY_ANALYSIS, WEB_SEARCH>>
    /\ sessions[s].progress.current_stage = REASONING

StageOutputSet(sess, stage) ==
  CASE stage = QUERY_ANALYSIS -> ~IsNone(sess.query_analysis)
    [] stage = WEB_SEARCH -> sess.sources # <<>>
    [] stage = REASONING -> ~IsNone(sess.synthesis)
    [] stage = VERIFICATION -> ~IsNone(sess.verification)
    [] stage = CITATION -> ~IsNone(sess.citations)
    [] stage = OUTPUT_GENERATION -> ~IsNone(sess.final_result)

FailedStages(s) == {Errors(s)[i][1] : i \in DOMAIN Errors(s)}

\* C37: in every state of a session a stage's output field is populated
\* only if current_stage is that stage or stages_completed contains it,
\* and the output field of a stage that failed is not populated.
C37_OutputsOnlyOfStartedStages ==
  \A s \in Created : \A stage \in Range(CanonicalOrder) :
    StageOutputSet(sessions[s], stage) =>
      /\ \/ sessions[s].progress.current_stage = stage
         \/ stage \in Range(Completed(s))
      /\ stage \notin FailedStages(s)

\* a provider call of search call c has just raised
ProviderJustRaised(c) ==
  \/ calls[c].at = "primary" /\ calls'[c].primary_event = "raised"
  \/ calls[c].at \in {"fallback", "fallback_inline"} /\ calls'[c].fallback_event = "raised"

\* C38: _execute_search never raises to its caller; a provider that raises
\* while use_fallback is set makes the call return the empty list, also
\* when both providers raised for it; a call invokes each provider at
\* most once.
C38_SearchNeverRaises ==
  /\ [](\A c \in Calls : IsSearchCall(c) =>
         /\ calls[c].outcome # "raised"
         /\ calls[c].primary_calls <= 1
         /\ calls[c].fallback_calls <= 1
         /\ (calls[c].primary_event = "raised" /\ calls[c].fallback_event = "raised")
              => (calls[c].at = "done" /\ calls[c].outcome = "empty"))
  /\ [][\A c \in Calls :
          (IsSearchCall(c) /\ search_use_fallback /\ ProviderJustRaised(c))
          => (calls'[c].at = "done" /\ calls'[c].outcome = "empty")]_vars

\* both providers raised for one search call, which returned the empty list
C38_Witness ==
  \E c \in Calls :
    /\ IsSearchCall(c) /\ calls[c].at = "done"
    /\ calls[c].primary_event = "raised" /\ calls[c].fallback_event = "raised"
    /\ calls[c].primary_calls = 1 /\ calls[c].fallback_calls = 1
    /\ calls[c].outcome = "empty"

\* C39: retry_with_backoff called with max_attempts <= 0 never invokes
\* func, never sleeps, and ends by raising.
C39_NoAttemptsRaises ==
  \A t \in RetryTasks :
    (retry[t].at # "idle" /\ retry[t].max_attempts <= 0) =>
      /\ retry[t].at = "done"
      /\ retry[t].invocations = 0
      /\ retry[t].sleeps = <<>>
      /\ retry[t].outcome.kind = "raised_type_error"

\* calls with max_attempts 0 and -1 have ended
C39_Witness ==
  \E t, u \in RetryTasks :
    /\ retry[t].at = "done" /\ retry[t].max_attempts = 0
    /\ retry[u].at = "done" /\ retry[u].max_attempts = -1
    /\ retry[t].outcome.kind = "raised_type_error"

====
